---- MODULE Spec2Model ----
(***************************************************************************)
(* A state-machine model of src/src/main.rs (rust-aws-logs): the paginated *)
(* retrieval loop fetch_entire_log, the file cache around it               *)
(* (fetch_entire_log_cached, clean_path_str) and the listing functions     *)
(* get_sorted_log_stream_names / get_sorted_log_group_names.               *)
(*                                                                         *)
(* Spec runs one invocation of the tool at a time; the cache directory is  *)
(* the only state that survives from one invocation to the next.           *)
(* SpecPreview runs the stream listing with --preview and its parallel     *)
(* map over the pool threads; SpecConcurrent runs two cached retrievals of *)
(* the same log at the same time.  Strings are                             *)
(* sequences of one-character strings, so that clean_path_str and          *)
(* starts_with are computed character by character.  Continuation tokens   *)
(* are opaque strings in the code; here they are the naturals 0..MaxTok    *)
(* (0 stands for the empty string, the smallest string) and None is a      *)
(* value outside that range.                                               *)
(***************************************************************************)
EXTENDS Integers, Sequences, FiniteSets, Bags, TLC

\* ------------------------------------------------------------------ bounds
\* Largest continuation token the upstream hands out.
MaxTok == 1
\* Cap on the number of events one retrieval accumulates.
MaxEvents == 3
\* Largest number of events in one page.
MaxPageLen == 2
\* Cap on the number of list requests of one enumeration.
MaxListRequests == 3
\* Cap on the number of names one enumeration accumulates.
MaxNames == 3
\* Size of the worker pool; 20 in the program (main.rs:327), smaller here so
\* that a preview has more streams than workers.
num_threads == 1
\* Number of streams a preview covers; 6 in the program (main.rs:384), smaller
\* here so that an enumeration has more names than that.
preview_amount == 2
\* Largest number of events in the page a preview fetches.
MaxPreviewEvents == 1
\* The limit a preview fetch asks for (main.rs:393).
preview_limit == 10
\* Largest number of events a retrieval returns when two invocations run
\* concurrently.
MaxRaceEvents == 2

\* ------------------------------------------------------------ value spaces
\* Option::None for a token (main.rs:181, main.rs:263).
None == -1
Tokens == 0..MaxTok
OptTokens == Tokens \cup {None}

\* The characters that occur in the modelled names, in byte order.
CharOrder == <<"-", ".", "/", "_", "a", "g">>
\* char::is_alphanumeric on those characters.
IsAlphanumeric(c) == c \in {"a", "g"}

\* --log-group values of a retrieval, and --log-stream values.
LogGroups == {<<"g">>}
LogStreams == {<<".", "a">>, <<"-", "a">>, <<"/", "a">>}

\* struct Event.  Two events share timestamp 1 and differ in their message.
EventUniverse ==
    { [timestamp |-> 1, message |-> "a", ingestion_time |-> 1],
      [timestamp |-> 1, message |-> "b", ingestion_time |-> 1],
      [timestamp |-> 2, message |-> "a", ingestion_time |-> 2] }

SeqsUpTo(S, n) == UNION { [1..k -> S] : k \in 0..n }

\* What one get-log-events call can produce: a failure, or an EventLog
\* (next_backward_token is only logged by the code and is left out).
PageResponses ==
    { [ok |-> FALSE, events |-> <<>>, next_forward_token |-> 0] }
    \cup
    { [ok |-> TRUE, events |-> p, next_forward_token |-> t] :
        p \in SeqsUpTo(EventUniverse, MaxPageLen), t \in Tokens }

\* ------------------------------------------------------------ pure helpers
\* str::starts_with("/")
StartsWithSlash(s) == Len(s) > 0 /\ s[1] = "/"

clean_path_str_keep(path) == path

\* clean_path_str: every non-alphanumeric character becomes '_'.
clean_path_str(path) ==
    [k \in 1..Len(path) |-> IF IsAlphanumeric(path[k]) THEN path[k] ELSE "_"]

\* cache_dir/<clean group>/<clean stream>
CachePath(log_group_, log_stream_) ==
    <<clean_path_str(log_group_), clean_path_str(log_stream_)>>

Paths == { CachePath(g, s) : g \in LogGroups, s \in LogStreams }

InsertByTimestamp_unstable(sorted, e) ==
    LET k == Cardinality({ j \in 1..Len(sorted) : sorted[j].timestamp < e.timestamp })
    IN  SubSeq(sorted, 1, k) \o <<e>> \o SubSeq(sorted, k + 1, Len(sorted))

\* One step of a stable sort: e goes after every element that is not greater.
InsertByTimestamp(sorted, e) ==
    LET k == Cardinality({ j \in 1..Len(sorted) : sorted[j].timestamp <= e.timestamp })
    IN  SubSeq(sorted, 1, k) \o <<e>> \o SubSeq(sorted, k + 1, Len(sorted))

RECURSIVE SortPrefix(_, _)
SortPrefix(s, n) ==
    IF n = 0 THEN <<>> ELSE InsertByTimestamp(SortPrefix(s, n - 1), s[n])

\* all_events.sort_by(|a, b| a.timestamp.cmp(&b.timestamp)): a stable sort.
SortByTimestamp(s) == SortPrefix(s, Len(s))

\* ------------------------------------------------------------ serde_json
\* A cache file: absent, or a JSON text.  A JSON text is modelled by the
\* objects it holds, each with the renamed keys of struct Event, and by
\* whether the text is a complete array; a truncated text is not.
NoFile == [exists |-> FALSE, complete |-> FALSE, items |-> <<>>]
TruncatedFile == [exists |-> TRUE, complete |-> FALSE, items |-> <<>>]

ToJson(e) ==
    [ts |-> e.timestamp, msg |-> e.message, ingestionTime |-> e.ingestion_time]

FromJson(o) ==
    [timestamp |-> o.ts, message |-> o.msg, ingestion_time |-> o.ingestionTime]

\* serde_json::to_string(&events)
Serialize(evs) ==
    [exists |-> TRUE, complete |-> TRUE,
     items |-> [k \in 1..Len(evs) |-> ToJson(evs[k])]]

\* serde_json::from_str succeeds exactly on a complete array of events.
Deserializable(file) == file.complete

Deserialize_dropsLast(file) ==
    [k \in 1..(IF Len(file.items) = 0 THEN 0 ELSE Len(file.items) - 1) |->
        FromJson(file.items[k])]

Deserialize(file) == [k \in 1..Len(file.items) |-> FromJson(file.items[k])]

\* --------------------------------------------------------------- the state
VARIABLES
    fs,              \* the cache directory: path -> file
    pc,              \* where the running invocation is
    log_group,       \* arguments of the invocation
    log_stream,
    use_cache,
    current_token,   \* fetch_entire_log locals
    all_events,
    events,          \* what fetch_entire_log_cached returns
    panic,           \* the panic that ended the invocation, "" if none
    fetched,         \* history: the events in the order they were fetched
    stop,            \* history: which break ended the loop, "" while none did
    nreq,            \* history: page requests issued by this invocation
    failed_req,      \* history: index of the page request that failed, 0 if none
    increasing,      \* history: no forward token so far was smaller than its predecessor
    in_flight,       \* history: page requests sent and not yet answered
    request_token,   \* history: the token the outstanding page request carries
    last_forward,    \* history: forward token of the last non-empty page received
    all_fresh,       \* history: every page so far was non-empty and its forward
                     \* token differed from the token of its request
    cache_hit,       \* history: the cache read found a file
    cache_reads,     \* history: cache reads of this invocation
    cache_writes,    \* history: cache writes attempted by this invocation
    prev,            \* history: the preceding invocation, if it was a cached retrieval
                     \* that returned; kept while idle and during a cached retrieval
    log_stream_names,\* get_sorted_log_stream_names locals
    next_token,
    log_group_names, \* get_sorted_log_group_names local
    nlist,           \* history: list requests issued by this invocation
    response_next_token, \* history: next_token of the last list response
    preview,         \* args.preview
    preview_log_stream_names,
    task,            \* the parallel map over preview_log_stream_names: per
                     \* position, how far its closure is and the text it made
    preview_requests,\* history: the bag of page requests the preview issued
    logstream_previews,
    proc,            \* two invocations running at the same time: for each,
                     \* where it is in fetch_entire_log_cached and its events
    last_writer      \* history: the invocation that wrote to the cache file last

vars == <<fs, pc, log_group, log_stream, use_cache, current_token, all_events,
          events, panic, fetched, stop,
          nreq, failed_req, increasing, in_flight, request_token, last_forward,
          all_fresh, cache_hit, cache_reads, cache_writes,
          prev, log_stream_names, next_token, log_group_names, nlist,
          response_next_token, preview, preview_log_stream_names, task,
          preview_requests, logstream_previews, proc, last_writer>>

retrievalLocals == <<current_token, all_events, fetched, stop, nreq,
                     failed_req, increasing, in_flight, request_token,
                     last_forward, all_fresh>>
cacheHistory == <<cache_hit, cache_reads, cache_writes>>
listLocals == <<log_stream_names, next_token, log_group_names, nlist,
                response_next_token>>
arguments == <<log_group, log_stream, use_cache>>
raceLocals == <<proc, last_writer>>
previewLocals == <<preview, preview_log_stream_names, task, preview_requests,
                   logstream_previews>>

NoPrev == [valid |-> FALSE, log_group |-> <<>>, log_stream |-> <<>>, events |-> <<>>]

Init ==
    /\ fs = [p \in Paths |-> NoFile]
    /\ pc = "idle"
    /\ log_group = <<>>
    /\ log_stream = <<>>
    /\ use_cache = FALSE
    /\ current_token = None
    /\ all_events = <<>>
    /\ events = <<>>
    /\ panic = ""
    /\ fetched = <<>>
    /\ stop = ""
    /\ nreq = 0
    /\ failed_req = 0
    /\ increasing = TRUE
    /\ in_flight = 0
    /\ request_token = None
    /\ last_forward = None
    /\ all_fresh = TRUE
    /\ cache_hit = FALSE
    /\ cache_reads = 0
    /\ cache_writes = 0
    /\ prev = NoPrev
    /\ log_stream_names = <<>>
    /\ next_token = None
    /\ log_group_names = <<>>
    /\ nlist = 0
    /\ response_next_token = None
    /\ preview = FALSE
    /\ preview_log_stream_names = <<>>
    /\ task = <<>>
    /\ preview_requests = EmptyBag
    /\ logstream_previews = <<>>
    /\ proc = <<>>
    /\ last_writer = 0

\* ------------------------------------------------ main: full retrieval
\* main.rs:416-426: no listing flag given; use_cache comes from ALOG_USE_CACHE.
StartRetrieval ==
    /\ pc = "idle"
    /\ \E g \in LogGroups, s \in LogStreams, uc \in BOOLEAN :
         /\ log_group' = g
         /\ log_stream' = s
         /\ use_cache' = uc
         /\ pc' = IF uc THEN "cache_read" ELSE "fetch_entire_log"
         /\ prev' = IF uc THEN prev ELSE NoPrev
    /\ UNCHANGED <<fs, events, panic, retrievalLocals, cacheHistory, listLocals>>
    /\ UNCHANGED previewLocals
    /\ UNCHANGED raceLocals

\* fetch_entire_log_cached, main.rs:219-236: read the cache file.  A file that
\* cannot be read is a miss; a file that is read is deserialized with unwrap().
CacheRead ==
    /\ pc = "cache_read"
    /\ cache_reads' = cache_reads + 1
    /\ LET contents == fs[CachePath(log_group, log_stream)] IN
         IF contents.exists
         THEN IF Deserializable(contents)
              THEN /\ events' = Deserialize(contents)
                   /\ cache_hit' = TRUE
                   /\ pc' = "cache_write"
                   /\ panic' = panic
              ELSE /\ pc' = "panicked"
                   /\ panic' = "CacheDeserialize"
                   /\ UNCHANGED <<events, cache_hit>>
         ELSE /\ pc' = "fetch_entire_log"
              /\ UNCHANGED <<events, cache_hit, panic>>
    /\ UNCHANGED <<fs, arguments, prev, retrievalLocals, cache_writes, listLocals>>
    /\ UNCHANGED previewLocals
    /\ UNCHANGED raceLocals

\* fetch_entire_log, main.rs:174-182: the reserved-prefix check, then the
\* loop's locals (they already hold their initial values).
EnterFetchEntireLog ==
    /\ pc = "fetch_entire_log"
    /\ IF StartsWithSlash(log_stream)
       THEN pc' = "panicked" /\ panic' = "Precondition"
       ELSE pc' = "paging" /\ panic' = panic
    /\ UNCHANGED <<fs, arguments, events, prev, retrievalLocals, cacheHistory, listLocals>>
    /\ UNCHANGED previewLocals
    /\ UNCHANGED raceLocals

IsFetchError_never(resp) == FALSE

\* fetch_single_log_page returned Err (main.rs:144-148), which
\* unwrap_or_else turns into a panic (main.rs:187).
IsFetchError(resp) == ~resp.ok

PageIsEmpty_never(n) == FALSE

\* main.rs:190
PageIsEmpty(n) == n = 0

TokenUnchanged_never(ct, fwd) == FALSE
TokenUnchanged_anyToken(ct, fwd) == ct # None
TokenUnchanged_emptyIsNone(ct, fwd) == ct # None /\ ct # 0 /\ ct = fwd

\* main.rs:203-207
TokenUnchanged(ct, fwd) == ct # None /\ ct = fwd

\* Where fetch_entire_log's value goes: back to fetch_entire_log_cached's
\* write (main.rs:234-238) or to main (main.rs:246-248).
AfterFetch == IF use_cache THEN "cache_write" ELSE "returned"

RequestToken_restart(ct) == None

\* The token a page request carries: current_token.as_deref() (main.rs:186),
\* passed as --next-token when it is Some (main.rs:129-132).
RequestToken(ct) == ct

Extend_dedup(all, page) ==
    LET New(e) == \A k \in 1..Len(all) : all[k] # e IN all \o SelectSeq(page, New)

\* all_events.extend(event_log.events), main.rs:194
Extend(all, page) == all \o page

\* The top of the loop of fetch_entire_log, main.rs:183-187: the call of
\* fetch_single_log_page, which runs `aws logs get-log-events` and blocks
\* until the command has ended (main.rs:141).
RequestPage ==
    /\ pc = "paging"
    /\ pc' = "awaiting_page"
    /\ nreq' = nreq + 1
    /\ in_flight' = in_flight + 1
    /\ request_token' = RequestToken(current_token)
    /\ UNCHANGED <<fs, arguments, events, panic, prev, current_token, all_events,
                   fetched, stop, failed_req, increasing, last_forward, all_fresh,
                   cacheHistory, listLocals>>
    /\ UNCHANGED previewLocals
    /\ UNCHANGED raceLocals

\* The rest of one iteration of the loop of fetch_entire_log, main.rs:185-210,
\* from the command's result on, and, when the loop ends, the sort and the
\* return, main.rs:211-213.  The locals page_size, forward_token and
\* backward_token live for one iteration, and i is only logged; they are not
\* part of the state.
FetchPage ==
    /\ pc = "awaiting_page"
    /\ in_flight' = in_flight - 1
    /\ request_token' = None
    /\ \E resp \in PageResponses :
         /\ Len(all_events) + Len(resp.events) <= MaxEvents
         /\ failed_req' = IF resp.ok THEN failed_req ELSE nreq
         /\ all_fresh' = (/\ all_fresh
                          /\ resp.ok
                          /\ Len(resp.events) > 0
                          /\ resp.next_forward_token # request_token)
         /\ last_forward' = IF resp.ok /\ Len(resp.events) > 0
                            THEN resp.next_forward_token
                            ELSE last_forward
         /\ IF IsFetchError(resp)
            THEN /\ pc' = "panicked"
                 /\ panic' = "PageFetch"
                 /\ UNCHANGED <<current_token, all_events, events, fetched,
                                increasing, stop>>
            ELSE /\ panic' = panic
                 /\ IF PageIsEmpty(Len(resp.events))
                    THEN /\ all_events' = SortByTimestamp(all_events)
                         /\ events' = SortByTimestamp(all_events)
                         /\ stop' = "empty"
                         /\ pc' = AfterFetch
                         /\ UNCHANGED <<current_token, fetched, increasing>>
                    ELSE /\ fetched' = fetched \o resp.events
                         /\ increasing' =
                              (increasing /\
                                 (current_token = None
                                    \/ resp.next_forward_token >= current_token))
                         /\ IF TokenUnchanged(current_token, resp.next_forward_token)
                            THEN /\ all_events' =
                                      SortByTimestamp(Extend(all_events, resp.events))
                                 /\ events' =
                                      SortByTimestamp(Extend(all_events, resp.events))
                                 /\ stop' = "token"
                                 /\ pc' = AfterFetch
                                 /\ UNCHANGED current_token
                            ELSE /\ all_events' = Extend(all_events, resp.events)
                                 /\ current_token' = resp.next_forward_token
                                 /\ pc' = "paging"
                                 /\ UNCHANGED <<events, stop>>
    /\ UNCHANGED <<fs, arguments, prev, nreq, cacheHistory, listLocals>>
    /\ UNCHANGED previewLocals
    /\ UNCHANGED raceLocals

\* fetch_entire_log_cached, main.rs:237-244: serialize events and write the
\* cache file.  The statements follow the match, so they run after a hit as
\* after a miss.  create_dir_all or write can fail (expect panics); a write
\* that fails after the file was opened leaves it truncated.
CacheWrite ==
    /\ pc = "cache_write"
    /\ cache_writes' = cache_writes + 1
    /\ LET path == CachePath(log_group, log_stream) IN
         \/ /\ fs' = [fs EXCEPT ![path] = Serialize(events)]
            /\ pc' = "returned"
            /\ panic' = panic
         \/ /\ fs' \in {fs, [fs EXCEPT ![path] = TruncatedFile]}
            /\ pc' = "panicked"
            /\ panic' = "CacheWrite"
    /\ UNCHANGED <<arguments, events, prev, retrievalLocals, cache_hit,
                   cache_reads, listLocals>>
    /\ UNCHANGED previewLocals
    /\ UNCHANGED raceLocals

\* ------------------------------------------------------- main: listings
\* Position of a character in byte order.
CharRank(c) == CHOOSE k \in 1..Len(CharOrder) : CharOrder[k] = c

\* a <= b for strings (String's Ord: bytewise, a proper prefix is smaller).
RECURSIVE StrLeq(_, _)
StrLeq(a, b) ==
    IF Len(a) = 0 THEN TRUE
    ELSE IF Len(b) = 0 THEN FALSE
    ELSE IF a[1] # b[1] THEN CharRank(a[1]) < CharRank(b[1])
    ELSE StrLeq(Tail(a), Tail(b))

InsertName(sorted, n) ==
    LET k == Cardinality({ j \in 1..Len(sorted) : StrLeq(sorted[j], n) })
    IN  SubSeq(sorted, 1, k) \o <<n>> \o SubSeq(sorted, k + 1, Len(sorted))

RECURSIVE SortNamesPrefix(_, _)
SortNamesPrefix(s, n) ==
    IF n = 0 THEN <<>> ELSE InsertName(SortNamesPrefix(s, n - 1), s[n])

\* Vec<String>::sort()
SortNames(s) == SortNamesPrefix(s, Len(s))

\* Names of log groups the account can hold.
GroupNames == {<<"g">>, <<"a">>}

\* The creation_time the upstream reports for each log stream (the field of
\* LogStream, main.rs:86-93): here the stream whose name sorts first is the
\* one created last.
creation_time(name) ==
    CASE name = <<"-", "a">> -> 3
      [] name = <<".", "a">> -> 1
      [] name = <<"/", "a">> -> 2

\* What one describe-log-streams call can produce: an SDK error, or a
\* response whose log_streams may be None and whose next_token may be None.
StreamListResponses ==
    { [ok |-> FALSE, has_list |-> FALSE, names |-> <<>>, next_token |-> None] }
    \cup
    { [ok |-> TRUE, has_list |-> h, names |-> ns, next_token |-> t] :
        h \in BOOLEAN, ns \in SeqsUpTo(LogStreams, MaxNames), t \in OptTokens }

\* What the one describe-log-groups call can produce.
GroupListResponses ==
    { [ok |-> FALSE, has_list |-> FALSE, names |-> <<>>, next_token |-> None] }
    \cup
    { [ok |-> TRUE, has_list |-> h, names |-> ns, next_token |-> t] :
        h \in BOOLEAN, ns \in SeqsUpTo(GroupNames, MaxNames), t \in OptTokens }

\* main.rs:371-377: --describe-log-streams; an empty --log-group only prints
\* a message.
StartDescribeStreams ==
    /\ pc = "idle"
    /\ \E g \in LogGroups \cup {<<>>} :
         /\ log_group' = g
         /\ pc' = IF Len(g) = 0 THEN "exited" ELSE "listing_streams"
    /\ prev' = NoPrev
    /\ UNCHANGED <<fs, log_stream, use_cache, events, panic,
                   retrievalLocals, cacheHistory, listLocals>>
    /\ UNCHANGED previewLocals
    /\ UNCHANGED raceLocals

\* One iteration of the loop of get_sorted_log_stream_names, main.rs:264-287,
\* and, when the loop ends, the sort and the return, main.rs:288-289.
ListStreamsPage ==
    /\ pc = "listing_streams"
    /\ nlist < MaxListRequests
    /\ \E resp \in StreamListResponses :
         /\ resp.has_list \/ Len(resp.names) = 0
         /\ Len(log_stream_names) + Len(resp.names) <= MaxNames
         /\ nlist' = nlist + 1
         /\ response_next_token' = resp.next_token
         /\ IF ~resp.ok
            THEN /\ pc' = "panicked"
                 /\ panic' = "ListRequest"
                 /\ UNCHANGED <<log_stream_names, next_token>>
            ELSE IF ~resp.has_list
            THEN /\ pc' = "list_failed"
                 /\ UNCHANGED <<log_stream_names, next_token, panic>>
            ELSE /\ next_token' = resp.next_token
                 /\ panic' = panic
                 /\ IF resp.next_token = None
                    THEN /\ log_stream_names' = SortNames(log_stream_names \o resp.names)
                         /\ pc' = "listed"
                    ELSE /\ log_stream_names' = log_stream_names \o resp.names
                         /\ pc' = "listing_streams"
    /\ UNCHANGED <<fs, arguments, events, prev, retrievalLocals, cacheHistory,
                   log_group_names>>
    /\ UNCHANGED previewLocals
    /\ UNCHANGED raceLocals

\* main.rs:363-364: --describe-log-groups.
StartDescribeGroups ==
    /\ pc = "idle"
    /\ pc' = "listing_groups"
    /\ prev' = NoPrev
    /\ UNCHANGED <<fs, arguments, events, panic, retrievalLocals,
                   cacheHistory, listLocals>>
    /\ UNCHANGED previewLocals
    /\ UNCHANGED raceLocals

\* get_sorted_log_group_names, main.rs:338-353: a single request; the
\* response's next_token is not looked at.
ListGroups ==
    /\ pc = "listing_groups"
    /\ \E resp \in GroupListResponses :
         /\ resp.has_list \/ Len(resp.names) = 0
         /\ nlist' = nlist + 1
         /\ response_next_token' = resp.next_token
         /\ IF ~resp.ok
            THEN /\ pc' = "panicked"
                 /\ panic' = "ListRequest"
                 /\ UNCHANGED log_group_names
            ELSE IF ~resp.has_list
            THEN /\ pc' = "list_failed"
                 /\ UNCHANGED <<log_group_names, panic>>
            ELSE /\ log_group_names' = SortNames(resp.names)
                 /\ pc' = "listed"
                 /\ panic' = panic
    /\ UNCHANGED <<fs, arguments, events, prev, retrievalLocals, cacheHistory,
                   log_stream_names, next_token>>
    /\ UNCHANGED previewLocals
    /\ UNCHANGED raceLocals

\* ---------------------------------------------------------------- preview
Reverse(q) == [k \in 1..Len(q) |-> q[Len(q) + 1 - k]]
Take(q, n) == SubSeq(q, 1, IF Len(q) < n THEN Len(q) ELSE n)

PreviewNames_first(names) == Take(names, preview_amount)

\* main.rs:385-390: log_stream_names.iter().rev().take(preview_amount)
PreviewNames(names) == Take(Reverse(names), preview_amount)

\* get_text_from_events, main.rs:251-258: the trimmed messages joined by
\* "\n".  The text is kept as the sequence of its lines; the messages of
\* EventUniverse have no whitespace for trim() to remove.
get_text_from_events(evs) == [k \in 1..Len(evs) |-> evs[k].message]

\* What the single get-log-events call of fetch_first_n_events can produce.
PreviewResponses == { r \in PageResponses : Len(r.events) <= MaxPreviewEvents }

\* The request fetch_first_n_events sends, main.rs:163:
\* fetch_single_log_page(log_group, log_stream, None, Some(limit)).
PreviewRequest(name) == [log_stream |-> name, token |-> None, limit |-> preview_limit]

NotStarted == [status |-> "pending", text |-> <<>>]
Running == Cardinality({i \in 1..Len(task) : task[i].status = "running"})

WorkerFree_always(r) == TRUE

\* The closures of par_iter run on the global pool of num_threads threads
\* (main.rs:325-329, main.rs:392); a closure holds its thread until its
\* command has ended (main.rs:141).
WorkerFree(r) == r < num_threads

BatchComplete_skipFailed(t) ==
    \A i \in 1..Len(t) : t[i].status \in {"done", "panicked"}

\* collect() returns once every closure has returned (main.rs:397).
BatchComplete(t) == \A i \in 1..Len(t) : t[i].status = "done"

\* The HashMap collect() builds from the pairs (name, text), main.rs:396-397;
\* of two pairs with the same name the later one stays.
CollectMap(names, t) ==
    LET ready == {i \in 1..Len(names) : t[i].status = "done"}
        Last(n) == CHOOSE i \in ready :
                      names[i] = n /\ \A j \in ready : names[j] = n => j <= i
    IN  [n \in {names[i] : i \in ready} |-> t[Last(n)].text]

\* main.rs:371-377 with --preview.
StartDescribeStreamsPreview ==
    /\ pc = "idle"
    /\ \E g \in LogGroups \cup {<<>>} :
         /\ log_group' = g
         /\ pc' = IF Len(g) = 0 THEN "exited" ELSE "listing_streams"
    /\ preview' = TRUE
    /\ prev' = NoPrev
    /\ UNCHANGED <<fs, log_stream, use_cache, events, panic,
                   retrievalLocals, cacheHistory, listLocals,
                   preview_log_stream_names, task, preview_requests,
                   logstream_previews>>
    /\ UNCHANGED raceLocals

\* main.rs:382-392: the names to preview are chosen and the parallel map
\* over them begins.
StartPreview ==
    /\ pc = "listed"
    /\ preview
    /\ pc' = "previewing"
    /\ preview_log_stream_names' = PreviewNames(log_stream_names)
    /\ task' = [i \in 1..Len(PreviewNames(log_stream_names)) |-> NotStarted]
    /\ UNCHANGED <<fs, arguments, events, panic, prev, retrievalLocals,
                   cacheHistory, listLocals, preview, preview_requests,
                   logstream_previews>>
    /\ UNCHANGED raceLocals

\* A pool thread takes up the closure of one name, main.rs:392-394, and
\* enters fetch_first_n_events, main.rs:157-163: it panics on a name that
\* starts with "/", otherwise it runs the command for the one page.
StartTask ==
    /\ pc = "previewing"
    /\ WorkerFree(Running)
    /\ \E i \in 1..Len(task) :
         /\ task[i].status = "pending"
         /\ IF StartsWithSlash(preview_log_stream_names[i])
            THEN /\ task' = [task EXCEPT ![i].status = "panicked"]
                 /\ UNCHANGED preview_requests
            ELSE /\ task' = [task EXCEPT ![i].status = "running"]
                 /\ preview_requests' =
                      preview_requests
                        (+) SetToBag({PreviewRequest(preview_log_stream_names[i])})
    /\ UNCHANGED <<fs, pc, arguments, events, panic, prev, retrievalLocals,
                   cacheHistory, listLocals, preview, preview_log_stream_names,
                   logstream_previews>>
    /\ UNCHANGED raceLocals

\* The command of one closure ends, main.rs:164-171 and main.rs:395-396:
\* fetch_first_n_events panics on an error, otherwise it sorts the events
\* and the closure makes its text.
FinishTask ==
    /\ pc = "previewing"
    /\ \E i \in 1..Len(task), resp \in PreviewResponses :
         /\ task[i].status = "running"
         /\ task' = IF IsFetchError(resp)
                    THEN [task EXCEPT ![i].status = "panicked"]
                    ELSE [task EXCEPT
                            ![i] = [status |-> "done",
                                    text |-> get_text_from_events(
                                               SortByTimestamp(resp.events))]]
    /\ UNCHANGED <<fs, pc, arguments, events, panic, prev, retrievalLocals,
                   cacheHistory, listLocals, preview, preview_log_stream_names,
                   preview_requests, logstream_previews>>
    /\ UNCHANGED raceLocals

\* Every closure has returned: collect() builds logstream_previews,
\* main.rs:397, and main prints and returns, main.rs:399-413.
CollectPreviews ==
    /\ pc = "previewing"
    /\ BatchComplete(task)
    /\ logstream_previews' = CollectMap(preview_log_stream_names, task)
    /\ pc' = "previewed"
    /\ UNCHANGED <<fs, arguments, events, panic, prev, retrievalLocals,
                   cacheHistory, listLocals, preview, preview_log_stream_names,
                   task, preview_requests>>
    /\ UNCHANGED raceLocals

\* A closure has panicked and no command is running any more: the panic
\* reaches main and ends the process.  Closures that no thread had taken up
\* yet may or may not have run before that.
PreviewPanic ==
    /\ pc = "previewing"
    /\ \E i \in 1..Len(task) : task[i].status = "panicked"
    /\ Running = 0
    /\ pc' = "panicked"
    /\ panic' = "PreviewTask"
    /\ UNCHANGED <<fs, arguments, events, prev, retrievalLocals,
                   cacheHistory, listLocals, previewLocals>>
    /\ UNCHANGED raceLocals

\* ------------------------------------------- two invocations at a time
Procs == {1, 2}
NotRunning == [pc |-> "cache_read", events |-> <<>>, cache_hit |-> FALSE, panic |-> ""]

\* What fetch_entire_log can return, main.rs:212-213: a sequence sorted by
\* timestamp.
FetchResults == { SortByTimestamp(q) : q \in SeqsUpTo(EventUniverse, MaxRaceEvents) }

\* The cache file after `text` was written at its start (write_all on a
\* handle opened at offset 0).  std::fs::write opens the file with
\* truncation and then writes (main.rs:243); when another invocation wrote a
\* longer text in between, the bytes beyond the end of `text` stay.  Every
\* event of EventUniverse serializes to an object of the same length, so the
\* longer text is the one with more objects.
WriteAtStart(old, text) ==
    IF old.exists /\ Len(old.items) > Len(text.items)
    THEN [exists |-> TRUE, complete |-> FALSE,
          items |-> text.items
                      \o SubSeq(old.items, Len(text.items) + 1, Len(old.items))]
    ELSE text

\* Two invocations of the tool with ALOG_USE_CACHE=true are started for the
\* same log group and log stream while the cache has no file for them.
StartConcurrentRetrievals ==
    /\ pc = "idle"
    /\ \E g \in LogGroups, s \in LogStreams :
         /\ log_group' = g
         /\ log_stream' = s
         /\ ~fs[CachePath(g, s)].exists
    /\ use_cache' = TRUE
    /\ pc' = "concurrent"
    /\ prev' = NoPrev
    /\ proc' = [p \in Procs |-> NotRunning]
    /\ UNCHANGED <<fs, events, panic, retrievalLocals, cacheHistory,
                   listLocals, previewLocals, last_writer>>

\* fetch_entire_log_cached, main.rs:219-236, in one of the invocations.
ConcurrentCacheRead ==
    /\ pc = "concurrent"
    /\ \E p \in Procs :
         /\ proc[p].pc = "cache_read"
         /\ LET contents == fs[CachePath(log_group, log_stream)] IN
              proc' = IF contents.exists
                      THEN IF Deserializable(contents)
                           THEN [proc EXCEPT ![p].pc = "cache_create",
                                             ![p].cache_hit = TRUE,
                                             ![p].events = Deserialize(contents)]
                           ELSE [proc EXCEPT ![p].pc = "panicked",
                                             ![p].panic = "CacheDeserialize"]
                      ELSE [proc EXCEPT ![p].pc = "fetch_entire_log"]
    /\ UNCHANGED <<fs, pc, arguments, events, panic, prev, retrievalLocals,
                   cacheHistory, listLocals, previewLocals, last_writer>>

\* fetch_entire_log as a whole, main.rs:174-214, in one of the invocations:
\* it touches nothing the other invocation sees.
ConcurrentFetch ==
    /\ pc = "concurrent"
    /\ \E p \in Procs :
         /\ proc[p].pc = "fetch_entire_log"
         /\ IF StartsWithSlash(log_stream)
            THEN proc' = [proc EXCEPT ![p].pc = "panicked",
                                      ![p].panic = "Precondition"]
            ELSE \/ proc' = [proc EXCEPT ![p].pc = "panicked",
                                         ![p].panic = "PageFetch"]
                 \/ \E result \in FetchResults :
                      proc' = [proc EXCEPT ![p].pc = "cache_create",
                                           ![p].events = result]
    /\ UNCHANGED <<fs, pc, arguments, events, panic, prev, retrievalLocals,
                   cacheHistory, listLocals, previewLocals, last_writer>>

\* main.rs:237-243 in one of the invocations, up to the point where
\* std::fs::write has opened the cache file, which empties it.
ConcurrentCreate ==
    /\ pc = "concurrent"
    /\ \E p \in Procs :
         /\ proc[p].pc = "cache_create"
         /\ \/ /\ fs' = [fs EXCEPT
                           ![CachePath(log_group, log_stream)] = TruncatedFile]
               /\ proc' = [proc EXCEPT ![p].pc = "cache_write"]
            \/ /\ fs' = fs
               /\ proc' = [proc EXCEPT ![p].pc = "panicked",
                                        ![p].panic = "CacheWrite"]
    /\ UNCHANGED <<pc, arguments, events, panic, prev, retrievalLocals,
                   cacheHistory, listLocals, previewLocals, last_writer>>

\* The rest of std::fs::write, main.rs:243-244, in one of the invocations:
\* the text is written at the start of the file, and
\* fetch_entire_log_cached returns its events (main.rs:248).
ConcurrentWrite ==
    /\ pc = "concurrent"
    /\ \E p \in Procs :
         /\ proc[p].pc = "cache_write"
         /\ LET path == CachePath(log_group, log_stream) IN
              \/ /\ fs' = [fs EXCEPT
                             ![path] = WriteAtStart(fs[path],
                                                    Serialize(proc[p].events))]
                 /\ proc' = [proc EXCEPT ![p].pc = "returned"]
                 /\ last_writer' = p
              \/ /\ fs' = fs
                 /\ proc' = [proc EXCEPT ![p].pc = "panicked",
                                          ![p].panic = "CacheWrite"]
                 /\ UNCHANGED last_writer
    /\ UNCHANGED <<pc, arguments, events, panic, prev, retrievalLocals,
                   cacheHistory, listLocals, previewLocals>>

\* ------------------------------------------------------ process boundary
Ended ==
    \/ pc \in {"returned", "panicked", "list_failed", "exited", "previewed"}
    \/ pc = "listed" /\ ~preview

\* The process ends (main returns, exits or panics); the next invocation
\* starts with fresh locals and the cache directory as it was left.
Exit ==
    /\ Ended
    /\ pc' = "idle"
    /\ prev' = IF pc = "returned" /\ use_cache
               THEN [valid |-> TRUE, log_group |-> log_group,
                     log_stream |-> log_stream, events |-> events]
               ELSE NoPrev
    /\ log_group' = <<>>
    /\ log_stream' = <<>>
    /\ use_cache' = FALSE
    /\ current_token' = None
    /\ all_events' = <<>>
    /\ events' = <<>>
    /\ panic' = ""
    /\ fetched' = <<>>
    /\ stop' = ""
    /\ nreq' = 0
    /\ failed_req' = 0
    /\ increasing' = TRUE
    /\ in_flight' = 0
    /\ request_token' = None
    /\ last_forward' = None
    /\ all_fresh' = TRUE
    /\ cache_hit' = FALSE
    /\ cache_reads' = 0
    /\ cache_writes' = 0
    /\ log_stream_names' = <<>>
    /\ next_token' = None
    /\ log_group_names' = <<>>
    /\ nlist' = 0
    /\ response_next_token' = None
    /\ UNCHANGED raceLocals
    /\ preview' = FALSE
    /\ preview_log_stream_names' = <<>>
    /\ task' = <<>>
    /\ preview_requests' = EmptyBag
    /\ logstream_previews' = <<>>
    /\ UNCHANGED fs

Next ==
    \/ StartRetrieval
    \/ CacheRead
    \/ EnterFetchEntireLog
    \/ RequestPage
    \/ FetchPage
    \/ CacheWrite
    \/ StartDescribeStreams
    \/ ListStreamsPage
    \/ StartDescribeGroups
    \/ ListGroups
    \/ Exit

Spec == Init /\ [][Next]_vars

\* The invocations with --describe-log-streams --preview.
NextPreview ==
    \/ StartDescribeStreamsPreview
    \/ ListStreamsPage
    \/ StartPreview
    \/ StartTask
    \/ FinishTask
    \/ CollectPreviews
    \/ PreviewPanic
    \/ Exit

SpecPreview == Init /\ [][NextPreview]_vars

\* Two cached retrievals of the same log started at the same time.
NextConcurrent ==
    \/ StartConcurrentRetrievals
    \/ ConcurrentCacheRead
    \/ ConcurrentFetch
    \/ ConcurrentCreate
    \/ ConcurrentWrite

SpecConcurrent == Init /\ [][NextConcurrent]_vars

\* =================================================================== claims
TimestampsOf(s) == { s[k].timestamp : k \in 1..Len(s) }

SortedByTimestamp(s) ==
    \A j, k \in 1..Len(s) : j < k => s[j].timestamp <= s[k].timestamp

\* The events of s that carry timestamp t, in the order they have in s.
WithTimestamp(s, t) ==
    LET At(e) == e.timestamp = t IN SelectSeq(s, At)

\* fetch_entire_log ran its loop to a break and handed its value back.
FetchReturned == stop # "" /\ pc \in {"cache_write", "returned"}

\* The running invocation is a cached retrieval that directly follows a
\* cached retrieval that returned.
AfterCachedRetrieval == use_cache /\ prev.valid /\ pc # "idle"

\* Two names differ at most in which non-alphanumeric character stands where.
SameButForSeparators(a, b) ==
    /\ Len(a) = Len(b)
    /\ \A k \in 1..Len(a) :
         a[k] = b[k] \/ (~IsAlphanumeric(a[k]) /\ ~IsAlphanumeric(b[k]))

\* C1: full retrieval terminates when the forward tokens are strictly
\* increasing and then repeat.  While every forward token received was larger
\* than the one before, the loop has issued at most one request per token
\* value (there are MaxTok + 1 of them); the first token that repeats ends
\* the loop at that very request, so a loop ended by the token check has
\* issued at least two requests and never issues another.
C1_TerminatesOnRepeatedToken ==
    /\ (pc = "paging" /\ increasing) => nreq <= MaxTok + 1
    /\ (pc = "paging") => stop = ""
    /\ (stop = "token") =>
          /\ pc \in {"cache_write", "returned", "panicked"}
          /\ nreq >= 2
          /\ nreq <= MaxTok + 2 \/ ~increasing

\* C1 witness: the token repeated right after the first non-empty page, no
\* empty page occurred, and the loop stopped after the second request.
C1_Witness ==
    /\ pc = "returned"
    /\ stop = "token"
    /\ nreq = 2
    /\ Len(fetched) = 2

\* C2: whenever full retrieval returns, the result is sorted ascending by
\* timestamp and is stable: it holds exactly the fetched events, and the
\* events of each timestamp stand in the order in which they were fetched.
C2_SortedAndStable ==
    FetchReturned =>
        /\ SortedByTimestamp(events)
        /\ Len(events) = Len(fetched)
        /\ \A t \in TimestampsOf(fetched) \cup TimestampsOf(events) :
              WithTimestamp(events, t) = WithTimestamp(fetched, t)

\* C2 witness: a retrieval returned events that were fetched out of order,
\* two of them with the same timestamp and different messages.
C2_Witness ==
    /\ pc = "returned"
    /\ stop # ""
    /\ fetched = << [timestamp |-> 2, message |-> "a", ingestion_time |-> 2],
                    [timestamp |-> 1, message |-> "b", ingestion_time |-> 1],
                    [timestamp |-> 1, message |-> "a", ingestion_time |-> 1] >>

\* C3: if the first page has zero records, full retrieval has issued exactly
\* that one request, the loop is over, the result is empty and no page-fetch
\* or precondition failure occurred.
C3_EmptyFirstPage ==
    (nreq >= 1 /\ in_flight = 0 /\ fetched = <<>> /\ failed_req = 0) =>
        /\ nreq = 1
        /\ stop = "empty"
        /\ pc \in {"cache_write", "returned", "panicked"}
        /\ events = <<>>
        /\ panic \in {"", "CacheWrite"}
        /\ pc = "panicked" => use_cache

\* C3 witness: a retrieval returned after an empty first page.
C3_Witness ==
    /\ pc = "returned"
    /\ nreq = 1
    /\ stop = "empty"
    /\ events = <<>>

\* C4: if a page request fails, the retrieval fails as a whole: the
\* invocation panics on that request, nothing is returned, no later request
\* is issued, and a cached retrieval has written nothing to its cache file.
C4_FailureAbortsRetrieval ==
    failed_req > 0 =>
        /\ pc = "panicked"
        /\ panic = "PageFetch"
        /\ events = <<>>
        /\ stop = ""
        /\ nreq = failed_req
        /\ cache_writes = 0
        /\ use_cache => ~fs[CachePath(log_group, log_stream)].exists

\* C4 witness: a cached retrieval whose second page request failed after a
\* first page had been fetched.
C4_Witness ==
    /\ failed_req = 2
    /\ use_cache
    /\ pc = "panicked"
    /\ Len(fetched) > 0

\* C5: a retrieval of a name that begins with '/' fails its precondition
\* with caching on or off and whatever the cache holds: it never issues a
\* page request and never returns a record sequence.
C5_ReservedPrefixNeverReturns ==
    StartsWithSlash(log_stream) => (nreq = 0 /\ pc # "returned")

\* C6: a cached retrieval that returns has written the cache file exactly
\* when it missed: a miss writes the fetched events under the key, a hit
\* writes nothing.
C6_HitWritesNothing ==
    (pc = "returned" /\ use_cache) =>
        IF cache_hit
        THEN cache_writes = 0
        ELSE /\ cache_writes = 1
             /\ fs[CachePath(log_group, log_stream)] = Serialize(events)

\* C7: a cached retrieval that directly follows a successful cached
\* retrieval of the same identity issues no page request and returns exactly
\* what the first one returned, whatever the upstream would answer now.  (The
\* only other way it can end is the panic of its own cache write.)
C7_CacheRoundTrip ==
    (AfterCachedRetrieval /\ prev.log_group = log_group
                          /\ prev.log_stream = log_stream) =>
        /\ nreq = 0
        /\ pc \notin {"fetch_entire_log", "paging", "awaiting_page"}
        /\ pc = "returned" => events = prev.events
        /\ pc = "panicked" => panic = "CacheWrite"

\* C7 witness: the second of two cached retrievals of one identity returned
\* a non-empty sequence without a page request.
C7_Witness ==
    /\ pc = "returned"
    /\ AfterCachedRetrieval
    /\ prev.log_stream = log_stream
    /\ nreq = 0
    /\ Len(events) > 0

\* C8: a cached retrieval of an identity that differs from the one cached
\* just before only in its non-alphanumeric characters issues no page request
\* and returns the other identity's cached events.
C8_KeyCollision ==
    (AfterCachedRetrieval /\ prev.log_group = log_group
                          /\ prev.log_stream # log_stream
                          /\ SameButForSeparators(prev.log_stream, log_stream)) =>
        /\ nreq = 0
        /\ pc \notin {"fetch_entire_log", "paging", "awaiting_page"}
        /\ pc = "returned" => events = prev.events
        /\ pc = "panicked" => panic = "CacheWrite"

\* C8 witness: ".a" was cached, then "-a" was retrieved from the cache and
\* came back with the events of ".a".
C8_Witness ==
    /\ pc = "returned"
    /\ AfterCachedRetrieval
    /\ prev.log_stream = <<".", "a">>
    /\ log_stream = <<"-", "a">>
    /\ nreq = 0
    /\ Len(events) > 0
    /\ events = prev.events

\* C9: a cache read that yields no record sequence (no file, or a file that
\* does not deserialize) is never surfaced: the retrieval does not panic on
\* it, and when it returns it returns freshly fetched events.
C9_ReadFailureIsAMiss ==
    (use_cache /\ cache_reads = 1 /\ ~cache_hit) =>
        /\ panic # "CacheDeserialize"
        /\ pc = "returned" => (stop # "" /\ events = SortByTimestamp(fetched))

\* C10: an enumeration whose upstream keeps returning a continuation token is
\* stopped by an iteration ceiling: it is never still running after as many
\* list requests as the model follows.
C10_EnumerationCeiling ==
    (pc = "listing_streams" /\ next_token # None) => nlist < MaxListRequests

\* C11: an enumeration, of groups or of streams, that returns its names has
\* read every page: the last response it received carried no continuation
\* token.
C11_EnumerationReadsEveryPage ==
    pc = "listed" => response_next_token = None

InPreview == pc \in {"previewing", "previewed"} \/ panic = "PreviewTask"
SuffixLen ==
    IF Len(log_stream_names) < preview_amount
    THEN Len(log_stream_names) ELSE preview_amount
SuffixPositions ==
    (Len(log_stream_names) - SuffixLen + 1)..Len(log_stream_names)
SuffixOccurrences(name) ==
    Cardinality({j \in SuffixPositions : log_stream_names[j] = name})

\* C12: a preview over the n enumerated names selects the last
\* min(preview_amount, n) of them.  Every request it issues is a single-page
\* request (no token, the fixed limit) for one of the selected entries, never
\* more than one per entry, and when the preview map is produced exactly one
\* request was issued per selected entry and the keys of the map are exactly
\* the selected names.
C12_PreviewFetchesTheSuffix ==
    InPreview =>
        /\ Len(preview_log_stream_names) = SuffixLen
        /\ \A j \in 1..SuffixLen :
              preview_log_stream_names[j]
                = log_stream_names[Len(log_stream_names) + 1 - j]
        /\ \A r \in BagToSet(preview_requests) :
              /\ r.token = None
              /\ r.limit = preview_limit
              /\ CopiesIn(r, preview_requests) <= SuffixOccurrences(r.log_stream)
        /\ pc = "previewed" =>
              /\ \A name \in LogStreams :
                    CopiesIn(PreviewRequest(name), preview_requests)
                      = SuffixOccurrences(name)
              /\ BagCardinality(preview_requests) = SuffixLen
              /\ DOMAIN logstream_previews
                    = {log_stream_names[j] : j \in SuffixPositions}

\* C12 witness: more names were enumerated than a preview covers, the first
\* two entries name the same stream, and the preview fetched the last two
\* entries only: one request for that stream, one for the last, two keys.
C12_Witness ==
    /\ pc = "previewed"
    /\ Len(log_stream_names) > preview_amount
    /\ BagCardinality(preview_requests) = preview_amount
    /\ Cardinality(DOMAIN logstream_previews) = preview_amount
    /\ log_stream_names[1] = log_stream_names[2]
    /\ CopiesIn(PreviewRequest(log_stream_names[1]), preview_requests) = 1

\* C13: at no time are more preview fetches running than the pool has
\* threads.
C13_BoundedFanOut ==
    Running <= num_threads

\* C13 witness: more names were selected than there are threads, every
\* thread runs a fetch and a closure still waits for a thread.
C13_Witness ==
    /\ pc = "previewing"
    /\ Len(task) > num_threads
    /\ Running = num_threads
    /\ \E i \in 1..Len(task) : task[i].status = "pending"

C15_StrictlySequential ==
    /\ in_flight <= 1
    /\ (in_flight = 1) <=> (pc = "awaiting_page")
    /\ pc = "awaiting_page" =>
          /\ nreq = 1 => request_token = None
          /\ nreq > 1 => (last_forward # None /\ request_token = last_forward)

\* C15 witness: the second request is outstanding and carries the forward
\* token of the first response.
C15_Witness ==
    /\ pc = "awaiting_page"
    /\ in_flight = 1
    /\ nreq = 2
    /\ request_token # None
    /\ request_token = last_forward

Occurrences(s, e) == Cardinality({k \in 1..Len(s) : s[k] = e})

\* C16: a retrieval that fetched returns a permutation of the concatenation
\* of all the non-empty pages it received, the page on which the token check
\* fired included: every event occurs in the result as often as in the pages.
C16_NoDedupNoDrop ==
    FetchReturned =>
        /\ Len(events) = Len(fetched)
        /\ \A e \in EventUniverse :
              Occurrences(events, e) = Occurrences(fetched, e)

\* C16 witness: the upstream served the same one-event page twice, the token
\* check fired on the second, and the event is in the result twice.
C16_Witness ==
    /\ FetchReturned
    /\ stop = "token"
    /\ nreq = 2
    /\ \E e \in EventUniverse : fetched = <<e, e>> /\ events = <<e, e>>

\* C17: there is no iteration ceiling.  As long as every response has been a
\* non-empty page whose forward token differs from the token of its request,
\* the retrieval, whatever the number of requests so far, has neither
\* returned nor failed: it is about to issue the next request.
C17_NoIterationCeiling ==
    (nreq >= 1 /\ in_flight = 0 /\ all_fresh) =>
        (pc = "paging" /\ stop = "" /\ panic = "")

\* C17 witness: three such pages in a row, and the loop goes on.
C17_Witness ==
    /\ pc = "paging"
    /\ all_fresh
    /\ nreq >= 3
    /\ Len(fetched) >= 3

\* C18: the empty-string token (0) is a token like any other.  A request
\* issued after a page with forward token "" carries "", a non-empty page
\* that answers a request carrying "" with forward token "" ends the loop by
\* the token check, and a non-empty page that answers the first request
\* (token None) never does.
C18_EmptyTokenIsAToken ==
    [][ /\ (pc = "paging" /\ pc' = "awaiting_page" /\ last_forward = 0)
              => request_token' = 0
        /\ (pc = "awaiting_page" /\ request_token = 0
               /\ fetched' # fetched /\ last_forward' = 0)
              => (stop' = "token" /\ pc' \in {"cache_write", "returned"})
        /\ (pc = "awaiting_page" /\ request_token = None /\ fetched' # fetched)
              => (stop' = "" /\ pc' = "paging")
      ]_vars

\* C18 witness: the first page returned "", the second request carried "",
\* the second page returned "" again and the token check stopped the loop.
C18_Witness ==
    /\ stop = "token"
    /\ nreq = 2
    /\ current_token = 0
    /\ last_forward = 0
    /\ Len(fetched) = 2

BothMissed == \A p \in Procs : ~proc[p].cache_hit
BothReturned == \A p \in Procs : proc[p].pc = "returned"

\* C19: when two concurrent cached retrievals of the same log both missed,
\* both fetched and both wrote, then, once both have returned, the cache file
\* holds exactly the events written by the one whose write came last.
C19_LastWriterWins ==
    (pc = "concurrent" /\ BothMissed /\ BothReturned) =>
        fs[CachePath(log_group, log_stream)] = Serialize(proc[last_writer].events)

\* C20: the stream names an enumeration returns are ordered by the creation
\* time the upstream reports for them, oldest first.
C20_StreamsByCreationTime ==
    pc = "listed" =>
        \A i, j \in 1..Len(log_stream_names) :
            i < j => creation_time(log_stream_names[i])
                       <= creation_time(log_stream_names[j])

====
